---- MODULE Spec2Model ----
(***************************************************************************)
(* Model of the CodeMaster ledger (core/database.py), lifecycle engine     *)
(* (core/lifecycle.py) and payment reconciliation (features/payments.py).  *)
(*                                                                         *)
(* The store is modelled at the level of connections: every method opens   *)
(* its own connection; a statement executed on a connection is pending     *)
(* until that connection calls commit(), and is discarded when the         *)
(* connection is closed without commit.  Time is a day counter `now`;      *)
(* timestamps are day numbers.                                             *)
(*                                                                         *)
(* Not modelled: write-lock contention between the connections one handler *)
(* holds open at the same time, names a module uses without importing      *)
(* them, and the store's refusal to evaluate 'now' inside the generated     *)
(* column total_active_days.  Every statement of a handler is taken to     *)
(* execute.                                                                *)
(*                                                                         *)
(* Handlers run one at a time in Spec, SpecLife, SpecPay, SpecSweep and   *)
(* SpecBots.                                                               *)
(* SpecRace runs two ledger calls statement by statement; there the write  *)
(* lock a connection takes with BEGIN IMMEDIATE at its first UPDATE is     *)
(* modelled between the two callers.                                       *)
(***************************************************************************)
EXTENDS Integers, Sequences, FiniteSets, TLC

\* ---------------------------------------------------------------- bounds
MaxNow == 2
MaxTrial == 10
MaxBonus == 31
MaxPaidAhead == 2
MaxPayments == 1
MaxPaidUntil == 61
MaxDay == 8
MaxBots == 1
MaxOwned == 5
MaxEdges == 11
MaxScanDay == 4
MaxNight == 10
MaxDemoTrial == 30

\* ------------------------------------------------------- program constants
NULL == -1
DefaultTrialDays == 10
PremiumThreshold == 30
ReferrerPaymentDays == 15
ReferredPaymentDays == 10
RetentionDays == 7
REFERRAL_REWARDS ==
  [bot_created |-> [days |-> 7, delay_days |-> 3],
   first_payment_referrer |-> [days |-> 15],
   first_payment_referred |-> [days |-> 10]]
MAX_REFERRALS_PER_DAY == 10
\* ABUSE_CHECK_HOURS = 24, in days.
ABUSE_CHECK_DAYS == 1
BotCeiling == 5

STATUS_ACTIVE == "active"
STATUS_FROZEN == "frozen"
STATUS_EXPIRED == "expired"
STATUS_DELETED == "deleted"

TARIFFS ==
  [demo |-> [days |-> 10, price |-> 0],
   monthly |-> [days |-> 30, price |-> 199],
   quarterly |-> [days |-> 90, price |-> 490],
   yearly |-> [days |-> 365, price |-> 1490]]

T_BANK_TOKEN == "secret"

VARIABLES users, user_balances, payments, bots, days_transactions, audit_log,
          status_cache, now, last, calls, write_lock, referral_events

vars == <<users, user_balances, payments, bots, days_transactions, audit_log,
          status_cache, now, last, calls, write_lock, referral_events>>

Max(a, b) == IF a >= b THEN a ELSE b

COALESCE_last(a, b) == b

\* SQL COALESCE(a, b): the first argument that is not NULL.
COALESCE(a, b) == IF a # NULL THEN a ELSE b

\* The store and the engine's memo as one value, threaded through the
\* handlers; txw, auw and ntf collect what one handler run handed to
\* log_days_transaction, log_audit and the notification collaborator.
World ==
  [users |-> users, user_balances |-> user_balances, payments |-> payments,
   bots |-> bots, days_transactions |-> days_transactions, audit_log |-> audit_log,
   status_cache |-> status_cache, now |-> now, referral_events |-> referral_events,
   txw |-> <<>>, auw |-> <<>>, ntf |-> <<>>, arg |-> <<>>]

\* Closing a connection: its pending statements reach the store only when
\* commit() was called on it before.
CloseConnection(committed, before, after) ==
  IF committed THEN after ELSE before

log_days_transaction(W, user_id, transaction_type, days_change, balance_type, new_balance) ==
  LET row == [user_id |-> user_id, transaction_type |-> transaction_type,
              days_change |-> days_change, balance_type |-> balance_type,
              new_balance |-> new_balance]
  IN [W EXCEPT !.txw = Append(@, row),
               !.days_transactions =
                  CloseConnection(FALSE, @, Append(@, row))]

log_audit(W, user_id, action) ==
  LET row == [user_id |-> user_id, action |-> action]
  IN [W EXCEPT !.auw = Append(@, row),
               !.audit_log = CloseConnection(FALSE, @, Append(@, row))]

HasBalance(W, user_id) == user_id \in DOMAIN W.user_balances

\* UPDATE user_balances SET ... WHERE user_id = ? : no row, no effect.
UpdateBalance(W, user_id, row) ==
  IF HasBalance(W, user_id)
  THEN [W EXCEPT !.user_balances[user_id] = row]
  ELSE W

\* user_balances.total_active_days, the generated column.
total_active_days(b, t) ==
  b.trial_days
  + Max(0, IF b.paid_until # NULL THEN b.paid_until - t ELSE 0)
  + b.bonus_days

\* ------------------------------------------------------------ Database
NewUserRow(telegram_id, referrer_id) ==
  [telegram_id |-> telegram_id, referrer_id |-> referrer_id, is_sub_active |-> 0]

NewBalanceRow(t) ==
  [trial_days |-> DefaultTrialDays, paid_until |-> NULL, bonus_days |-> 0,
   current_status |-> STATUS_FROZEN, status_changed_at |-> t,
   is_premium |-> 0, premium_since |-> NULL]

create_or_update_user(W, telegram_id, referrer_id) ==
  IF \E i \in DOMAIN W.users : W.users[i].telegram_id = telegram_id
  THEN [w |-> W,
        ret |-> CHOOSE i \in DOMAIN W.users : W.users[i].telegram_id = telegram_id]
  ELSE LET user_id == Len(W.users) + 1
           W1 == [W EXCEPT !.users = Append(@, NewUserRow(telegram_id, referrer_id)),
                           !.user_balances = Append(@, NewBalanceRow(W.now))]
       IN [w |-> log_audit(W1, user_id, "USER_REGISTERED"), ret |-> user_id]

add_trial_days(W, user_id, days) ==
  LET current == IF HasBalance(W, user_id)
                 THEN W.user_balances[user_id].trial_days ELSE 0
      new_balance == current + days
      W1 == IF HasBalance(W, user_id)
            THEN UpdateBalance(W, user_id,
                   [W.user_balances[user_id] EXCEPT !.trial_days = new_balance])
            ELSE W
  IN log_days_transaction(W1, user_id, "TRIAL_ADD", days, "trial", new_balance)

\* paid_until as add_paid_days extends it, from the stored value.
NewPaidUntilFromNow(stored, t, days) == t + days

NewPaidUntil(stored, t, days) ==
  LET current_until == IF stored # NULL THEN stored ELSE t
  IN Max(t, current_until) + days

add_paid_days(W, user_id, days) ==
  LET stored == IF HasBalance(W, user_id)
                THEN W.user_balances[user_id].paid_until ELSE NULL
      new_until == NewPaidUntil(stored, W.now, days)
      W1 == IF HasBalance(W, user_id)
            THEN UpdateBalance(W, user_id,
                   [W.user_balances[user_id] EXCEPT !.paid_until = new_until])
            ELSE W
  IN log_days_transaction(W1, user_id, "PAID_ADD", days, "paid", days)

ReachesPremiumAbove(new_balance) == new_balance > PremiumThreshold

\* The test add_bonus_days makes before it sets is_premium.
ReachesPremium(new_balance) == new_balance >= PremiumThreshold

add_bonus_days(W, user_id, days) ==
  LET current == IF HasBalance(W, user_id)
                 THEN W.user_balances[user_id].bonus_days ELSE 0
      new_balance == current + days
      W1 == IF ~HasBalance(W, user_id) THEN W
            ELSE IF ReachesPremium(new_balance)
            THEN UpdateBalance(W, user_id,
                   [W.user_balances[user_id] EXCEPT
                      !.bonus_days = new_balance,
                      !.is_premium = 1,
                      !.premium_since = COALESCE(@, W.now)])
            ELSE UpdateBalance(W, user_id,
                   [W.user_balances[user_id] EXCEPT !.bonus_days = new_balance])
  IN log_days_transaction(W1, user_id, "BONUS_ADD", days, "bonus", new_balance)

ConsumeSourcePaidFirst(trial_days, paid_until, bonus_days, t) ==
  IF paid_until # NULL /\ paid_until > t THEN "paid"
  ELSE IF trial_days > 0 THEN "trial"
  ELSE IF bonus_days > 0 THEN "bonus"
  ELSE "none"

ConsumeSourceAtZero(trial_days, paid_until, bonus_days, t) ==
  IF trial_days >= 0 THEN "trial"
  ELSE IF paid_until # NULL /\ paid_until > t THEN "paid"
  ELSE IF bonus_days > 0 THEN "bonus"
  ELSE "none"

\* The branch consume_day takes: the source the day is deducted from.
ConsumeSource(trial_days, paid_until, bonus_days, t) ==
  IF trial_days > 0 THEN "trial"
  ELSE IF paid_until # NULL /\ paid_until > t THEN "paid"
  ELSE IF bonus_days > 0 THEN "bonus"
  ELSE "none"

consume_day(W, user_id) ==
  IF ~HasBalance(W, user_id) THEN [w |-> W, ret |-> FALSE]
  ELSE
  LET b == W.user_balances[user_id]
      src == ConsumeSource(b.trial_days, b.paid_until, b.bonus_days, W.now)
      \* last_billing_date is stamped here; no modelled code reads it.
      stamp(X) == X
  IN
  CASE src = "trial" ->
         LET new_trial == b.trial_days - 1
             W1 == UpdateBalance(W, user_id, [b EXCEPT !.trial_days = new_trial])
             W2 == log_days_transaction(W1, user_id, "DAILY_CONSUMPTION", -1,
                                        "trial", new_trial)
         IN [w |-> stamp(W2), ret |-> TRUE]
    [] src = "paid" ->
         LET new_paid_until == b.paid_until - 1
             W1 == UpdateBalance(W, user_id, [b EXCEPT !.paid_until = new_paid_until])
             remaining_days == Max(0, new_paid_until - W.now)
             W2 == log_days_transaction(W1, user_id, "DAILY_CONSUMPTION", -1,
                                        "paid", remaining_days)
         IN [w |-> stamp(W2), ret |-> TRUE]
    [] src = "bonus" ->
         LET new_bonus == b.bonus_days - 1
             W1 == UpdateBalance(W, user_id, [b EXCEPT !.bonus_days = new_bonus])
             W2 == log_days_transaction(W1, user_id, "DAILY_CONSUMPTION", -1,
                                        "bonus", new_bonus)
         IN [w |-> stamp(W2), ret |-> TRUE]
    [] OTHER ->
         \* UPDATE ... current_status = 'expired' is pending on the connection
         \* when the method returns False; commit() is not reached.
         LET W1 == UpdateBalance(W, user_id,
                     [b EXCEPT !.current_status = STATUS_EXPIRED,
                               !.status_changed_at = W.now])
             W2 == [W EXCEPT !.user_balances =
                       CloseConnection(FALSE, W.user_balances, W1.user_balances)]
         IN [w |-> log_audit(W2, user_id, "DAYS_EXPIRED"), ret |-> FALSE]

get_user(W, user_id) ==
  [u |-> W.users[user_id], b |-> W.user_balances[user_id],
   total_active_days |-> total_active_days(W.user_balances[user_id], W.now)]

update_subscription_status(W, user_id, is_active) ==
  LET W1 == IF user_id \in DOMAIN W.users
            THEN [W EXCEPT !.users[user_id].is_sub_active = is_active]
            ELSE W
  IN log_audit(W1, user_id, "SUBSCRIPTION_CHANGED")

get_user_bots(W, user_id) ==
  {i \in DOMAIN W.bots : W.bots[i].owner_id = user_id}

create_bot(W, user_id) ==
  LET bot_id == Len(W.bots) + 1
      W1 == [W EXCEPT !.bots = Append(@, [owner_id |-> user_id, is_running |-> 0])]
  IN [w |-> log_audit(W1, user_id, "BOT_CREATED"), ret |-> bot_id]

\* DELETE FROM bots WHERE owner_id = ? on a connection of its own that is
\* closed without commit().
delete_bots_by_owner(W, owner_id) ==
  [W EXCEPT !.bots =
     CloseConnection(FALSE, @, SelectSeq(@, LAMBDA b : b.owner_id # owner_id))]

Min(S) == CHOOSE x \in S : \A y \in S : x <= y

\* The loop of cleanup_expired_users over users_to_delete.
RECURSIVE DeleteUsers(_, _)
DeleteUsers(W, users_to_delete) ==
  IF users_to_delete = {} THEN W
  ELSE LET user_id == Min(users_to_delete)
           W1 == delete_bots_by_owner(W, user_id)
           W2 == UpdateBalance(W1, user_id,
                   [W1.user_balances[user_id] EXCEPT !.current_status = STATUS_DELETED])
           W3 == log_audit(W2, user_id, "USER_DELETED_AUTO")
       IN DeleteUsers(W3, users_to_delete \ {user_id})

ExpiredBeyondNoWindow(b, t, days_to_keep) ==
  /\ b.current_status = STATUS_EXPIRED
  /\ b.status_changed_at <= t

\* The WHERE clause of cleanup_expired_users.
ExpiredBeyond(b, t, days_to_keep) ==
  /\ b.current_status = STATUS_EXPIRED
  /\ b.status_changed_at <= t - days_to_keep

cleanup_expired_users(W, days_to_keep) ==
  LET users_to_delete ==
        {u \in DOMAIN W.users \cap DOMAIN W.user_balances :
           ExpiredBeyond(W.user_balances[u], W.now, days_to_keep)}
  IN [w |-> DeleteUsers(W, users_to_delete),
      ret |-> Cardinality(users_to_delete)]

\* referral_events.referred_id is UNIQUE and referrer_id is NOT NULL: the
\* INSERT raises IntegrityError otherwise.
IntegrityErrorPerPair(events, referrer_id, referred_id) ==
  \/ referrer_id = NULL
  \/ \E i \in DOMAIN events :
        /\ events[i].referred_id = referred_id
        /\ events[i].referrer_id = referrer_id

IntegrityError(events, referrer_id, referred_id) ==
  \/ referrer_id = NULL
  \/ \E i \in DOMAIN events : events[i].referred_id = referred_id

\* reward_type is "" and days_awarded is NULL until the event is rewarded.
create_referral_event(W, referrer_id, referred_id, event_type, pending_days) ==
  IF IntegrityError(W.referral_events, referrer_id, referred_id)
  THEN [w |-> W, ret |-> FALSE]
  ELSE [w |-> [W EXCEPT !.referral_events = Append(@,
                 [referrer_id |-> referrer_id, referred_id |-> referred_id,
                  event_type |-> event_type, reward_granted |-> 0,
                  reward_type |-> "", days_awarded |-> NULL,
                  created_at |-> W.now, pending_until |-> W.now + pending_days])],
        ret |-> TRUE]

\* pending_until is stored as isoformat() text ('2026-01-04T10:00:00.5') and
\* compared as text with datetime('now') ('2026-01-04 10:00:00'): 'T' sorts
\* after ' ', so on its own date the stored value is never <= now; it is
\* from the next date on.
IsoTextLE(iso_day, sql_day) == iso_day < sql_day

get_pending_referrals(W) ==
  {e \in DOMAIN W.referral_events :
     /\ W.referral_events[e].pending_until # NULL
     /\ IsoTextLE(W.referral_events[e].pending_until, W.now)
     /\ W.referral_events[e].reward_granted = 0}

mark_referral_rewarded(W, event_id, reward_type, days_awarded) ==
  IF event_id \in DOMAIN W.referral_events
  THEN [W EXCEPT !.referral_events[event_id] =
          [@ EXCEPT !.reward_granted = 1, !.reward_type = reward_type,
                    !.days_awarded = days_awarded, !.pending_until = NULL]]
  ELSE W

\* ------------------------------------------------------ LifecycleEngine
_update_user_premium_status(W, user_id, is_premium) ==
  IF is_premium = 1
  THEN UpdateBalance(W, user_id,
         [W.user_balances[user_id] EXCEPT
            !.is_premium = 1,
            !.premium_since = COALESCE(@, W.now)])
  ELSE UpdateBalance(W, user_id,
         [W.user_balances[user_id] EXCEPT !.is_premium = 0])

_update_user_status(W, user_id, status) ==
  UpdateBalance(W, user_id,
    [W.user_balances[user_id] EXCEPT !.current_status = status,
                                     !.status_changed_at = W.now])

_set_user_expired(W, user_id) ==
  UpdateBalance(W, user_id,
    [W.user_balances[user_id] EXCEPT !.current_status = STATUS_EXPIRED,
                                     !.status_changed_at = W.now])

notify(W, user_id, kind) ==
  [W EXCEPT !.ntf = Append(@, [user_id |-> user_id, kind |-> kind])]

_handle_status_change(W, user_id, old_status, new_status) ==
  IF (old_status = STATUS_FROZEN /\ new_status = STATUS_ACTIVE)
     \/ (old_status = STATUS_ACTIVE /\ new_status = STATUS_FROZEN)
  THEN LET is_running == IF new_status = STATUS_ACTIVE THEN 1 ELSE 0
           owned == get_user_bots(W, user_id)
           W1 == [W EXCEPT !.bots =
                    [i \in DOMAIN W.bots |->
                       IF i \in owned
                       THEN [W.bots[i] EXCEPT !.is_running = is_running]
                       ELSE W.bots[i]]]
       IN log_audit(W1, user_id,
                    IF is_running = 1 THEN "BOTS_RESUMED" ELSE "BOTS_PAUSED")
  ELSE W

CachePut(cache, key, status) ==
  [k \in DOMAIN cache \cup {key} |-> IF k = key THEN status ELSE cache[k]]

\* is_subscribed is NULL (argument omitted), 0 or 1.  A memo entry is present
\* while it is younger than 300 seconds (see CacheExpire).
ExpiredAgain(current_status) == TRUE

\* if user.get("current_status") != self.STATUS_EXPIRED
NewlyExpired(current_status) == current_status # STATUS_EXPIRED

IsPremiumAbove(bonus_days) == IF bonus_days > PremiumThreshold THEN 1 ELSE 0

\* is_premium = bonus_days >= 30
IsPremium(bonus_days) == IF bonus_days >= PremiumThreshold THEN 1 ELSE 0

get_user_status(W, user_id, is_subscribed) ==
  LET cache_key == <<user_id, is_subscribed>> IN
  IF cache_key \in DOMAIN W.status_cache
  THEN [w |-> W, ret |-> W.status_cache[cache_key]]
  ELSE IF user_id \notin DOMAIN W.users
  THEN [w |-> W, ret |-> STATUS_DELETED]
  ELSE
  LET user == get_user(W, user_id)
      subscribed == IF is_subscribed = NULL THEN user.u.is_sub_active
                    ELSE is_subscribed
      W1 == IF is_subscribed # NULL /\ is_subscribed # user.u.is_sub_active
            THEN update_subscription_status(W, user_id, is_subscribed)
            ELSE W
      status == IF subscribed = 0 THEN STATUS_FROZEN
                ELSE IF user.total_active_days > 0 THEN STATUS_ACTIVE
                ELSE STATUS_EXPIRED
      is_premium == IsPremium(user.b.bonus_days)
      W2 == IF status = STATUS_ACTIVE
            THEN IF is_premium # user.b.is_premium
                 THEN _update_user_premium_status(W1, user_id, is_premium)
                 ELSE W1
            ELSE IF status = STATUS_EXPIRED
                    /\ NewlyExpired(user.b.current_status)
            THEN notify(_set_user_expired(W1, user_id), user_id, "expired")
            ELSE W1
      current_status == user.b.current_status
      W3 == IF status # current_status
            THEN _handle_status_change(
                   log_audit(_update_user_status(W2, user_id, status),
                             user_id, "STATUS_CHANGED"),
                   user_id, current_status, status)
            ELSE W2
  IN [w |-> [W3 EXCEPT !.status_cache = CachePut(@, cache_key, status)],
      ret |-> status]

add_days_to_user(W, user_id, days, days_type) ==
  LET W1 == CASE days_type = "trial" -> add_trial_days(W, user_id, days)
              [] days_type = "paid" -> add_paid_days(W, user_id, days)
              [] OTHER -> add_bonus_days(W, user_id, days)
      W2 == get_user_status(W1, user_id, NULL).w
  IN [w |-> notify(W2, user_id, "days_added"), ret |-> TRUE]

\* The user_ids daily_billing_task selects.
BillingSelection(W) ==
  {u \in DOMAIN W.users \cap DOMAIN W.user_balances :
     /\ W.users[u].is_sub_active = 1
     /\ W.user_balances[u].current_status = STATUS_ACTIVE
     /\ total_active_days(W.user_balances[u], W.now) > 0}

\* The loop of daily_billing_task over the selected user_ids. failing: the
\* accounts for which consume_day raises before it has written anything
\* (the store refuses the connection or the statement).
RECURSIVE BillUsers(_, _, _)
BillUsers(W, user_ids, failing) ==
  IF user_ids = {} THEN W
  ELSE LET user_id == Min(user_ids)
           c == consume_day(W, user_id)
           W1 == IF user_id \in failing
                 THEN log_audit(W, user_id, "BILLING_ERROR")
                 ELSE IF c.ret THEN get_user_status(c.w, user_id, NULL).w
                 ELSE c.w
       IN BillUsers(W1, user_ids \ {user_id}, failing)

daily_billing_task(W, failing) ==
  LET W1 == BillUsers(W, BillingSelection(W), failing)
  IN cleanup_expired_users(W1, RetentionDays).w

\* The loop of check_expired_notifications over the expired accounts.
RECURSIVE NotifyExpired(_, _)
NotifyExpired(W, expired_users) ==
  IF expired_users = {} THEN W
  ELSE LET user_id == Min(expired_users)
           days_expired == W.now - W.user_balances[user_id].status_changed_at
           W1 == IF days_expired \in {1, 2, 3}
                 THEN notify(W, user_id, "last_chance")
                 ELSE W
       IN NotifyExpired(W1, expired_users \ {user_id})

check_expired_notifications(W) ==
  NotifyExpired(W, {u \in DOMAIN W.users \cap DOMAIN W.user_balances :
                      /\ W.user_balances[u].current_status = STATUS_EXPIRED
                      /\ W.user_balances[u].status_changed_at # NULL})

can_create_bot(W, user_id) ==
  LET r == get_user_status(W, user_id, NULL)
      status == r.ret
      bots_owned == get_user_bots(r.w, user_id)
      total_days == get_user(r.w, user_id).total_active_days
  IN [w |-> r.w,
      ret |-> IF status \in {STATUS_FROZEN, STATUS_EXPIRED, STATUS_DELETED}
              THEN FALSE
              ELSE IF Cardinality(bots_owned) >= BotCeiling THEN FALSE
              ELSE IF total_days <= 0 THEN FALSE
              ELSE TRUE]

\* ------------------------------------------------------ ReferralSystem
_is_abuse_detected(W, user_id) ==
  LET recent_referrals ==
        Cardinality({i \in DOMAIN W.referral_events :
                       /\ W.referral_events[i].referrer_id = user_id
                       /\ W.referral_events[i].created_at >= W.now - ABUSE_CHECK_DAYS})
  IN IF recent_referrals >= MAX_REFERRALS_PER_DAY
     THEN [w |-> log_audit(W, user_id, "REFERRAL_ABUSE_DETECTED"), ret |-> TRUE]
     ELSE [w |-> W, ret |-> FALSE]

\* The message goes out when both user rows are found.
_send_referral_registered_notification(W, referrer_id, referred_id) ==
  IF referrer_id \in DOMAIN W.users /\ referred_id \in DOMAIN W.users
  THEN notify(W, referrer_id, "referral_registered")
  ELSE W

handle_new_user(W, new_user_id, referrer_id) ==
  IF referrer_id = NULL THEN W
  ELSE LET a == _is_abuse_detected(W, referrer_id)
       IN IF a.ret THEN a.w
          ELSE LET c == create_referral_event(a.w, referrer_id, new_user_id,
                          "bot_created", REFERRAL_REWARDS.bot_created.delay_days)
               IN IF c.ret
                  THEN _send_referral_registered_notification(c.w, referrer_id, new_user_id)
                  ELSE c.w

_send_referral_bonus_notification(W, referrer_id, referred_id) ==
  IF referrer_id \in DOMAIN W.users /\ referred_id \in DOMAIN W.users
  THEN notify(W, referrer_id, "referral_bonus")
  ELSE W

\* One pass of the loop of process_pending_referrals, up to the return of
\* add_days_to_user: ret is its success.
CreditReferral(W, event_id) ==
  LET referral == W.referral_events[event_id]
      s == get_user_status(W, referral.referred_id, NULL)
  IN IF s.ret = STATUS_ACTIVE
     THEN add_days_to_user(s.w, referral.referrer_id,
                           REFERRAL_REWARDS.bot_created.days, "bonus")
     ELSE [w |-> s.w, ret |-> FALSE]

\* The rest of the pass after a successful credit.
MarkReferral(W, event_id) ==
  LET referral == W.referral_events[event_id]
  IN _send_referral_bonus_notification(
       mark_referral_rewarded(W, event_id, "bonus",
                              REFERRAL_REWARDS.bot_created.days),
       referral.referrer_id, referral.referred_id)

\* The loop over the rows get_pending_referrals returned, in event_id order.
RECURSIVE ProcessReferrals(_, _)
ProcessReferrals(W, pending_referrals) ==
  IF pending_referrals = {} THEN W
  ELSE LET event_id == Min(pending_referrals)
           c == CreditReferral(W, event_id)
           W1 == IF c.ret THEN MarkReferral(c.w, event_id) ELSE c.w
       IN ProcessReferrals(W1, pending_referrals \ {event_id})

process_pending_referrals(W) == ProcessReferrals(W, get_pending_referrals(W))

_is_first_payment(W, user_id) ==
  Cardinality({p \in DOMAIN W.payments :
                 /\ W.payments[p].user_id = user_id
                 /\ W.payments[p].payment_status = "success"}) = 1

_mark_first_payment_rewarded(W, user_id, referrer_id) ==
  [W EXCEPT !.referral_events =
     [e \in DOMAIN W.referral_events |->
        IF /\ W.referral_events[e].referrer_id = referrer_id
           /\ W.referral_events[e].referred_id = user_id
           /\ W.referral_events[e].event_type = "first_payment"
        THEN [W.referral_events[e] EXCEPT
                !.reward_granted = 1, !.reward_type = "bonus",
                !.days_awarded = REFERRAL_REWARDS.first_payment_referrer.days,
                !.pending_until = NULL]
        ELSE W.referral_events[e]]]

_send_referral_payment_notification(W, referrer_id, referred_id) ==
  IF referrer_id \in DOMAIN W.users /\ referred_id \in DOMAIN W.users
  THEN notify(W, referrer_id, "referral_payment")
  ELSE W

handle_user_payment(W, user_id) ==
  IF ~_is_first_payment(W, user_id) THEN W
  ELSE IF user_id \notin DOMAIN W.users THEN W
  ELSE LET referrer_id == W.users[user_id].referrer_id IN
  IF referrer_id = NULL THEN W
  ELSE LET g == add_days_to_user(W, referrer_id,
                   REFERRAL_REWARDS.first_payment_referrer.days, "bonus")
           c == create_referral_event(g.w, referrer_id, user_id, "first_payment", 0)
           W1 == IF g.ret
                 THEN _send_referral_payment_notification(
                        _mark_first_payment_rewarded(c.w, user_id, referrer_id),
                        referrer_id, user_id)
                 ELSE g.w
       IN add_days_to_user(W1, user_id,
             REFERRAL_REWARDS.first_payment_referred.days, "bonus").w

\* ------------------------------------------------------ Database.payments
create_payment(W, user_id, payment_method, days_awarded) ==
  LET payment_id == Len(W.payments) + 1
      row == [user_id |-> user_id, payment_method |-> payment_method,
              payment_status |-> "pending",
              telegram_payment_charge_id |-> NULL,
              days_awarded |-> days_awarded, completed_at |-> NULL]
      W1 == [W EXCEPT !.payments = Append(@, row)]
  IN [w |-> log_audit(W1, user_id, "PAYMENT_CREATED"), ret |-> payment_id]

\* telegram_payment_charge_id is UNIQUE: the UPDATE raises IntegrityError
\* when another row already carries the charge id.
update_payment_status(W, payment_id, status, telegram_charge_id) ==
  IF payment_id \notin DOMAIN W.payments
  THEN [w |-> log_audit(W, NULL, "PAYMENT_UPDATED"), raised |-> FALSE]
  ELSE IF telegram_charge_id # NULL
          /\ \E j \in DOMAIN W.payments :
                j # payment_id
                /\ W.payments[j].telegram_payment_charge_id = telegram_charge_id
  THEN [w |-> W, raised |-> TRUE]
  ELSE LET row == [W.payments[payment_id] EXCEPT
                     !.payment_status = status,
                     !.completed_at = W.now,
                     !.telegram_payment_charge_id =
                        IF telegram_charge_id # NULL THEN telegram_charge_id ELSE @]
           W1 == [W EXCEPT !.payments[payment_id] = row]
       IN [w |-> log_audit(W1, NULL, "PAYMENT_UPDATED"), raised |-> FALSE]

\* ------------------------------------------------------ PaymentProcessor
\* The keyed hash over the sorted fields, kept as the pair it is computed
\* from: two signatures are equal exactly when key and fields are.
_generate_tbank_signature(data, key) == <<key, data>>

\* A comparison of the signed fields alone, whatever key signed them.
SignedFieldsMatch(callback_data) ==
  callback_data.sign[2] = callback_data.data

_validate_tbank_signature(callback_data) ==
  callback_data.sign = _generate_tbank_signature(callback_data.data, T_BANK_TOKEN)

Lower(status) == IF status = "SUCCESS" THEN "success" ELSE status

\* db.mark_referral_payment_event is not a method of Database: the call
\* raises after both grants and the handler's except clause swallows it.
ReferralPaymentSwapped(W, user_id) ==
  IF user_id \notin DOMAIN W.users THEN W
  ELSE LET referrer_id == W.users[user_id].referrer_id
       IN IF referrer_id = NULL THEN W
          ELSE LET W1 == add_days_to_user(W, referrer_id, ReferredPaymentDays, "bonus").w
               IN add_days_to_user(W1, user_id, ReferrerPaymentDays, "bonus").w

_process_referral_payment(W, user_id) ==
  IF user_id \notin DOMAIN W.users THEN W
  ELSE LET referrer_id == W.users[user_id].referrer_id
       IN IF referrer_id = NULL THEN W
          ELSE LET W1 == add_days_to_user(W, referrer_id, ReferrerPaymentDays, "bonus").w
               IN add_days_to_user(W1, user_id, ReferredPaymentDays, "bonus").w

_send_payment_success_notification(W, user_id) ==
  IF user_id \in DOMAIN W.users THEN notify(W, user_id, "payment_success") ELSE W

process_tbank_callback(W, callback_data) ==
  IF ~_validate_tbank_signature(callback_data) THEN [w |-> W, ret |-> FALSE]
  ELSE
  LET payment_id == callback_data.data.order_id
      status == Lower(callback_data.data.status)
  IN
  IF status = "success"
  THEN IF payment_id \notin DOMAIN W.payments THEN [w |-> W, ret |-> FALSE]
       ELSE LET payment == W.payments[payment_id]
                r == update_payment_status(W, payment_id, "success",
                                           callback_data.data.transaction_id)
            IN IF r.raised THEN [w |-> r.w, ret |-> FALSE]
               ELSE LET g == add_days_to_user(r.w, payment.user_id,
                                              payment.days_awarded, "paid")
                        W1 == _send_payment_success_notification(g.w, payment.user_id)
                    IN [w |-> _process_referral_payment(W1, payment.user_id),
                        ret |-> TRUE]
  ELSE IF status \in {"failed", "canceled"}
  THEN LET r == update_payment_status(W, payment_id, "failed", NULL)
       IN [w |-> r.w, ret |-> FALSE]
  ELSE [w |-> W, ret |-> FALSE]

\* build_ok: whether assembling the T-Bank invoice payload completes or
\* raises inside _create_tbank_invoice.
\* invoice_payload is held as the pair of its prefix and the digits after
\* it; telegram_charge_id is telegram_payment_charge_id.
process_stars_payment(W, invoice_payload, telegram_charge_id) ==
  IF invoice_payload[1] # "payment_" THEN [w |-> W, ret |-> FALSE]
  ELSE
  LET payment_id == invoice_payload[2] IN
  IF payment_id \notin DOMAIN W.payments THEN [w |-> W, ret |-> FALSE]
  ELSE LET payment == W.payments[payment_id]
           r == update_payment_status(W, payment_id, "success", telegram_charge_id)
       IN IF r.raised THEN [w |-> r.w, ret |-> FALSE]
          ELSE LET g == add_days_to_user(r.w, payment.user_id,
                                         payment.days_awarded, "paid")
                   W1 == _send_payment_success_notification(g.w, payment.user_id)
               IN [w |-> _process_referral_payment(W1, payment.user_id),
                   ret |-> TRUE]

DemoOncePerAccount(W, user_id, tariff_key, payment_method, build_ok) ==
  IF tariff_key \notin DOMAIN TARIFFS THEN [w |-> W, ret |-> "None"]
  ELSE IF tariff_key = "demo"
  THEN IF HasBalance(W, user_id)
          /\ W.user_balances[user_id].trial_days >= TARIFFS[tariff_key].days
       THEN [w |-> W, ret |-> "free"]
       ELSE [w |-> add_days_to_user(W, user_id, TARIFFS[tariff_key].days, "trial").w,
             ret |-> "free"]
  ELSE LET c == create_payment(W, user_id, payment_method, TARIFFS[tariff_key].days)
       IN IF payment_method = "tbank"
          THEN IF build_ok THEN [w |-> c.w, ret |-> "tbank"]
               ELSE [w |-> update_payment_status(c.w, c.ret, "failed", NULL).w,
                     ret |-> "None"]
          ELSE IF payment_method = "stars" THEN [w |-> c.w, ret |-> "stars"]
          ELSE [w |-> c.w, ret |-> "None"]

create_invoice(W, user_id, tariff_key, payment_method, build_ok) ==
  IF tariff_key \notin DOMAIN TARIFFS THEN [w |-> W, ret |-> "None"]
  ELSE IF tariff_key = "demo"
  THEN [w |-> add_days_to_user(W, user_id, TARIFFS[tariff_key].days, "trial").w,
        ret |-> "free"]
  ELSE LET c == create_payment(W, user_id, payment_method, TARIFFS[tariff_key].days)
       IN IF payment_method = "tbank"
          THEN IF build_ok THEN [w |-> c.w, ret |-> "tbank"]
               ELSE [w |-> update_payment_status(c.w, c.ret, "failed", NULL).w,
                     ret |-> "None"]
          ELSE IF payment_method = "stars" THEN [w |-> c.w, ret |-> "stars"]
          ELSE [w |-> c.w, ret |-> "None"]

\* ------------------------------------------------------------- the system
EmptyCache == [k \in {} |-> STATUS_FROZEN]

\* The two callers of SpecRace and the state of a call that is not running.
Procs == {1, 2}

NoCall ==
  [pc |-> "idle", op |-> "", user_id |-> 0, days |-> 0, row |-> <<>>,
   pending |-> <<>>, start |-> <<>>, ret |-> ""]

Init ==
  /\ users = <<>>
  /\ user_balances = <<>>
  /\ payments = <<>>
  /\ bots = <<>>
  /\ days_transactions = <<>>
  /\ audit_log = <<>>
  /\ status_cache = EmptyCache
  /\ now = 0
  /\ last = [op |-> "init", id |-> 0, days |-> 0, ret |-> "",
             txw |-> <<>>, auw |-> <<>>, ntf |-> <<>>, arg |-> <<>>]
  /\ calls = [p \in Procs |-> NoCall]
  /\ write_lock = 0
  /\ referral_events = <<>>

\* The state after a handler has run, with the record of that run: the
\* handler, the account or payment it was called for, the days or flag
\* passed, and what it returned.
InstallStore(W, op, id, days, ret) ==
  /\ users' = W.users
  /\ user_balances' = W.user_balances
  /\ payments' = W.payments
  /\ bots' = W.bots
  /\ days_transactions' = W.days_transactions
  /\ audit_log' = W.audit_log
  /\ status_cache' = W.status_cache
  /\ now' = W.now
  /\ referral_events' = W.referral_events
  /\ last' = [op |-> op, id |-> id, days |-> days, ret |-> ret,
              txw |-> W.txw, auw |-> W.auw, ntf |-> W.ntf, arg |-> W.arg]

Install(W, op, id, days, ret) ==
  /\ InstallStore(W, op, id, days, ret)
  /\ UNCHANGED <<calls, write_lock>>

Bool(b) == IF b THEN "True" ELSE "False"

TelegramIds == {101, 102}
TrialGrants == {1}
PaidGrants == {0, 1}
BonusGrants == {15}
SubArgs == {NULL, 0, 1}

Bounded(W) ==
  \A u \in DOMAIN W.user_balances :
     /\ W.user_balances[u].trial_days <= MaxTrial
     /\ W.user_balances[u].bonus_days <= MaxBonus
     /\ W.user_balances[u].paid_until <= W.now + MaxPaidAhead

Register(telegram_id, referrer_id) ==
  LET r == create_or_update_user(World, telegram_id, referrer_id)
  IN Install(r.w, "create_or_update_user", r.ret, 0, "None")

AddTrial(u, d) ==
  LET W == add_trial_days(World, u, d)
  IN Bounded(W) /\ Install(W, "add_trial_days", u, d, "None")

AddPaid(u, d) ==
  LET W == add_paid_days(World, u, d)
  IN Bounded(W) /\ Install(W, "add_paid_days", u, d, "None")

AddBonus(u, d) ==
  LET W == add_bonus_days(World, u, d)
  IN Bounded(W) /\ Install(W, "add_bonus_days", u, d, "None")

Consume(u) ==
  LET r == consume_day(World, u)
  IN Install(r.w, "consume_day", u, 0, Bool(r.ret))

GetStatus(u, flag) ==
  LET r == get_user_status(World, u, flag)
  IN Install(r.w, "get_user_status", u, flag, r.ret)

\* A day passes; every memo entry is then older than 300 seconds.
Tick ==
  /\ now < MaxNow
  /\ Install([World EXCEPT !.now = now + 1, !.status_cache = EmptyCache],
             "tick", 0, 0, "None")

\* More than 300 seconds pass within the day.
CacheExpire ==
  /\ status_cache # EmptyCache
  /\ Install([World EXCEPT !.status_cache = EmptyCache], "ttl", 0, 0, "None")

\* The Ledger Store on its own: the public operations of Database on the
\* balance of a registered account, and the clock.
Next ==
  \/ Register(101, NULL)
  \/ \E u \in DOMAIN users, d \in TrialGrants : AddTrial(u, d)
  \/ \E u \in DOMAIN users, d \in PaidGrants : AddPaid(u, d)
  \/ \E u \in DOMAIN users, d \in BonusGrants : AddBonus(u, d)
  \/ \E u \in DOMAIN users : Consume(u)
  \/ Tick

Spec == Init /\ [][Next]_vars

\* The ledger called for an account id with and without a Balance row.
LedgerIds == {1, 2}

NextUnknown ==
  \/ Register(101, NULL)
  \/ \E u \in LedgerIds, d \in TrialGrants : AddTrial(u, d)
  \/ \E u \in LedgerIds, d \in PaidGrants : AddPaid(u, d)
  \/ \E u \in LedgerIds, d \in BonusGrants : AddBonus(u, d)
  \/ \E u \in LedgerIds : Consume(u)

SpecUnknown == Init /\ [][NextUnknown]_vars

\* The ledger under the lifecycle engine: the trial of a new account, bonus
\* granted in the referral amount, consumption, and status recomputation
\* with its memo.
NextLife ==
  \/ Register(101, NULL)
  \/ \E u \in DOMAIN users : AddBonus(u, ReferrerPaymentDays)
  \/ \E u \in DOMAIN users : Consume(u)
  \/ \E u \in DOMAIN users, flag \in SubArgs : GetStatus(u, flag)
  \/ Tick
  \/ CacheExpire

SpecLife == Init /\ [][NextLife]_vars

\* Payment reconciliation: two accounts, the second referred by the first,
\* invoices for the monthly tariff and provider callbacks in any order,
\* repeated, signed with the shop's key or with another.
BoundedPay(W) ==
  /\ Len(W.payments) <= MaxPayments
  /\ \A u \in DOMAIN W.user_balances :
        /\ W.user_balances[u].trial_days <= MaxTrial
        /\ W.user_balances[u].bonus_days <= MaxBonus
        /\ W.user_balances[u].paid_until <= MaxPaidUntil

CallbackStatuses == {"success", "SUCCESS", "failed", "canceled", "refunded"}
ChargeIds == {NULL, 7001}
SigningKeys == {T_BANK_TOKEN, "forged"}

\* last.arg holds the tariff key and the payment method.
CreateInvoice(u, tariff_key, payment_method, build_ok) ==
  LET r == create_invoice(World, u, tariff_key, payment_method, build_ok)
  IN /\ BoundedPay(r.w)
     /\ Install([r.w EXCEPT !.arg = <<tariff_key, payment_method>>],
                "create_invoice", u, 0, r.ret)

\* last.days is 1 when the callback was signed with the merchant's token;
\* last.arg holds the status field of the callback.
TbankCallback(order_id, status, transaction_id, key) ==
  LET data == [order_id |-> order_id, status |-> status,
               transaction_id |-> transaction_id]
      r == process_tbank_callback(World,
             [data |-> data, sign |-> _generate_tbank_signature(data, key)])
  IN /\ BoundedPay(r.w)
     /\ Install([r.w EXCEPT !.arg = <<status>>], "process_tbank_callback", order_id,
                IF key = T_BANK_TOKEN THEN 1 ELSE 0, Bool(r.ret))

HandleUserPayment(u) ==
  LET W == handle_user_payment(World, u)
  IN BoundedPay(W) /\ Install(W, "handle_user_payment", u, 0, "None")

NextPay ==
  \/ Register(101, NULL)
  \/ (Len(users) = 1 /\ Register(102, 1))
  \/ \E u \in DOMAIN users, ok \in BOOLEAN :
        CreateInvoice(u, "monthly", "tbank", ok)
  \/ \E u \in DOMAIN users : CreateInvoice(u, "weekly", "tbank", TRUE)
  \/ \E u \in DOMAIN users : CreateInvoice(u, "monthly", "crypto", TRUE)
  \/ \E o \in 1..(MaxPayments + 1), st \in CallbackStatuses,
        t \in ChargeIds, k \in SigningKeys : TbankCallback(o, st, t, k)
  \/ \E u \in DOMAIN users : HandleUserPayment(u)
  \/ Tick

SpecPay == Init /\ [][NextPay]_vars

\* Callbacks on their own: one account, its invoices and every callback the
\* gateway or a forger can send for them.
NextCallback ==
  \/ Register(101, NULL)
  \/ \E u \in DOMAIN users, ok \in BOOLEAN :
        CreateInvoice(u, "monthly", "tbank", ok)
  \/ \E o \in 1..(MaxPayments + 1), st \in CallbackStatuses,
        t \in ChargeIds, k \in SigningKeys : TbankCallback(o, st, t, k)
  \/ Tick

SpecCallback == Init /\ [][NextCallback]_vars

\* last.id is the Payment id of the payload.
StarsPayment(invoice_payload, telegram_charge_id) ==
  LET r == process_stars_payment(World, invoice_payload, telegram_charge_id)
  IN /\ BoundedPay(r.w)
     /\ Install(r.w, "process_stars_payment", invoice_payload[2], 0, Bool(r.ret))

\* Telegram Stars: a referrer and a referred account order the monthly
\* tariff, and successful_payment updates arrive for the orders, once or
\* again, or with a payload of another kind.
NextStars ==
  \/ Register(101, NULL)
  \/ (Len(users) = 1 /\ Register(102, 1))
  \/ \E u \in DOMAIN users : CreateInvoice(u, "monthly", "stars", TRUE)
  \/ \E o \in 1..(MaxPayments + 1), prefix \in {"payment_", "gift_"} :
        StarsPayment(<<prefix, o>>, 7001)
  \/ Tick

SpecStars == Init /\ [][NextStars]_vars

\* create_invoice for the demo tariff; last.arg holds the tariff key and the
\* payment method.
DemoInvoice(u, payment_method) ==
  LET r == create_invoice(World, u, "demo", payment_method, TRUE)
  IN /\ \A v \in DOMAIN r.w.user_balances :
          r.w.user_balances[v].trial_days <= MaxDemoTrial
     /\ Install([r.w EXCEPT !.arg = <<"demo", payment_method>>],
                "create_invoice", u, 0, r.ret)

\* The demo tariff: one account that subscribes, takes the demo tariff again
\* and again, orders a paid tariff, and has days consumed.
NextDemo ==
  \/ Register(101, NULL)
  \/ \E u \in DOMAIN users : GetStatus(u, 1)
  \/ \E u \in DOMAIN users, m \in {"tbank", "stars"} : DemoInvoice(u, m)
  \/ \E u \in DOMAIN users : CreateInvoice(u, "monthly", "tbank", TRUE)
  \/ \E u \in DOMAIN users : Consume(u)
  \/ Tick

SpecDemo == Init /\ [][NextDemo]_vars

\* A referred account's payments: account 2 is referred by account 1, either
\* of them orders the monthly tariff, and the gateway reports every order,
\* once or again.
NextFirstPay ==
  \/ Register(101, NULL)
  \/ (Len(users) = 1 /\ Register(102, 1))
  \/ \E u \in DOMAIN users : CreateInvoice(u, "monthly", "tbank", TRUE)
  \/ \E o \in 1..MaxPayments, st \in {"success", "failed"}, t \in ChargeIds :
        TbankCallback(o, st, t, T_BANK_TOKEN)
  \/ Tick

SpecFirstPay == Init /\ [][NextFirstPay]_vars

\* The daily sweep and retention: one account that subscribes and
\* unsubscribes, is billed by the sweep, runs out of days and is left
\* expired over the retention window.
CreateBot(u) ==
  LET r == create_bot(World, u)
  IN Install(r.w, "create_bot", u, 0, "None")

CanCreateBot(u) ==
  LET r == can_create_bot(World, u)
  IN Install(r.w, "can_create_bot", u, 0, Bool(r.ret))

AddDays(u, d, days_type) ==
  LET r == add_days_to_user(World, u, d, days_type)
  IN Bounded(r.w) /\ Install(r.w, "add_days_to_user", u, d, Bool(r.ret))

Billing ==
  Install(daily_billing_task(World, {}), "daily_billing_task", 0, 0, "None")

\* A day passes in the sweep's world; every memo entry is then older than
\* 300 seconds.
DayPasses ==
  /\ now < MaxDay
  /\ Install([World EXCEPT !.now = now + 1, !.status_cache = EmptyCache],
             "tick", 0, 0, "None")

\* A sweep during which consume_day raises for the accounts in failing;
\* last.arg holds that set.
BillingWithFailures(failing) ==
  Install([daily_billing_task(World, failing) EXCEPT !.arg = <<failing>>],
          "daily_billing_task", 0, 0, "None")

\* The scheduler's daily job: the next day comes (every memo entry is then
\* older than 300 seconds) and daily_billing_task runs on it.
NightlySweep ==
  /\ now < MaxNight
  /\ Install(daily_billing_task([World EXCEPT !.now = now + 1,
                                              !.status_cache = EmptyCache], {}),
             "daily_billing_task", 0, 0, "None")

\* The days on which the account is still acted upon: late enough days are
\* left to the scheduler alone, so that MaxNight leaves room for the sweep
\* that stores expired and the retention window after it.
Early == now <= MaxNight - RetentionDays - 1

\* Retention under the scheduler: one account that subscribes, is granted
\* paid days, is billed by extra runs of the sweep within a day, and the
\* daily job that runs every day.
NextRetention ==
  \/ Early /\ Register(101, NULL)
  \/ Early /\ \E u \in DOMAIN users : GetStatus(u, 1)
  \/ Early /\ \E u \in DOMAIN users : AddDays(u, 1, "paid")
  \/ Early /\ Billing
  \/ NightlySweep

\* The scheduler's clock: the only step of NextRetention on which a day
\* comes is NightlySweep, and NightlySweep is enabled exactly when a day can
\* still come, so fairness on NightFalls is fairness on NightlySweep.
NightFalls == now < MaxNight /\ now' = now + 1

SpecRetention == Init /\ [][NextRetention]_vars /\ WF_now(NightFalls)

\* The paid days granted in SpecPaid.
PaidGrant == MaxPaidAhead

\* Paid time under the scheduler: on day 0 one account subscribes, uses up
\* its trial days and is granted PaidGrant paid days, once; from then on the
\* daily job alone acts on it.
NextPaid ==
  \/ Register(101, NULL)
  \/ \E u \in DOMAIN users : now = 0 /\ GetStatus(u, 1)
  \/ \E u \in DOMAIN users : now = 0 /\ Consume(u)
  \/ \E u \in DOMAIN users :
        /\ now = 0
        /\ users[u].is_sub_active = 1
        /\ user_balances[u].trial_days = 0 /\ user_balances[u].bonus_days = 0
        /\ user_balances[u].paid_until = NULL
        /\ AddDays(u, PaidGrant, "paid")
  \/ NightlySweep

SpecPaid == Init /\ [][NextPaid]_vars

\* The sweep over two accounts, with and without failures.
NextBilling ==
  \/ \E t \in {101, 102} : Register(t, NULL)
  \/ \E u \in DOMAIN users : GetStatus(u, 1)
  \/ \E failing \in SUBSET (DOMAIN users) : BillingWithFailures(failing)
  \/ Tick

SpecBilling == Init /\ [][NextBilling]_vars

CheckExpiredNotifications ==
  Install(check_expired_notifications(World), "check_expired_notifications",
          0, 0, "None")

NextSweep ==
  \/ Register(101, NULL)
  \/ \E u \in DOMAIN users : Len(bots) < MaxBots /\ CreateBot(u)
  \/ \E u \in DOMAIN users, flag \in SubArgs : GetStatus(u, flag)
  \/ \E u \in DOMAIN users, d \in TrialGrants : AddDays(u, d, "trial")
  \/ Billing
  \/ CheckExpiredNotifications
  \/ DayPasses
  \/ CacheExpire

SpecSweep == Init /\ [][NextSweep]_vars

\* Bots and the status of their owner: an account that subscribes and
\* unsubscribes, uses up its days and creates bots up to the ceiling.
NextBots ==
  \/ Register(101, NULL)
  \/ \E u \in DOMAIN users : Len(bots) < MaxOwned /\ CreateBot(u)
  \/ \E u \in DOMAIN users : CanCreateBot(u)
  \/ \E u \in DOMAIN users, flag \in SubArgs : GetStatus(u, flag)
  \/ \E u \in DOMAIN users : Consume(u)
  \/ CacheExpire

SpecBots == Init /\ [][NextBots]_vars

\* Referral edges: one referrer, new accounts arriving under its link one
\* after the other, and repeated attempts on an account already referred.
\* last.id is the referred account, last.days the referrer.
CreateReferralEvent(referrer_id, referred_id, event_type) ==
  LET r == create_referral_event(World, referrer_id, referred_id, event_type,
                                 REFERRAL_REWARDS.bot_created.delay_days)
  IN Install(r.w, "create_referral_event", referred_id, referrer_id, Bool(r.ret))

HandleNewUser(new_user_id, referrer_id) ==
  Install(handle_new_user(World, new_user_id, referrer_id),
          "handle_new_user", new_user_id, referrer_id, "None")

Referrers == {1, 50}

NextAbuse ==
  \/ Register(101, NULL)
  \/ (Len(users) = 1 /\ Register(102, 1))
  \/ (Len(referral_events) < MaxEdges
      /\ HandleNewUser(Len(referral_events) + 2, 1))
  \/ \E r \in Referrers \cup {NULL} : HandleNewUser(2, r)
  \/ \E r \in Referrers, t \in {"bot_created", "first_payment"} :
        CreateReferralEvent(r, 2, t)
  \/ Tick

SpecAbuse == Init /\ [][NextAbuse]_vars

\* The deferred referral scan: a referrer, a referred account that
\* subscribes and unsubscribes, a referred id with no account, and scans
\* that run one at a time.
ProcessPendingReferrals ==
  Install(process_pending_referrals(World), "process_pending_referrals",
          0, 0, "None")

NextRef ==
  \/ Register(101, NULL)
  \/ (Len(users) = 1 /\ Register(102, 1))
  \/ \E n \in {2, 3} : HandleNewUser(n, 1)
  \/ \E flag \in SubArgs : (2 \in DOMAIN users /\ GetStatus(2, flag))
  \/ ProcessPendingReferrals
  \/ (now < MaxScanDay /\ DayPasses)
  \/ CacheExpire

SpecRef == Init /\ [][NextRef]_vars

\* The deferred referral scan, await by await: two scans may be under way
\* at once, and a scan may be cut off after add_days_to_user has returned
\* and before mark_referral_rewarded is called.
RECURSIVE Ascending(_)
Ascending(S) ==
  IF S = {} THEN <<>> ELSE <<Min(S)>> \o Ascending(S \ {Min(S)})

\* pending_referrals = await db.get_pending_referrals()
ScanStart(p) ==
  LET pending_referrals == Ascending(get_pending_referrals(World)) IN
  /\ calls[p].pc = "idle"
  /\ pending_referrals # <<>>
  /\ calls' = [calls EXCEPT ![p] =
        [NoCall EXCEPT !.pc = "credit", !.op = "process_pending_referrals",
                       !.pending = pending_referrals]]
  /\ UNCHANGED <<users, user_balances, payments, bots, referral_events,
                 days_transactions, audit_log, status_cache, now, last,
                 write_lock>>

\* The scan moves on to the next row of its list, or returns.
NextReferral(c) ==
  IF Len(c.pending) = 1 THEN NoCall
  ELSE [c EXCEPT !.pc = "credit", !.pending = Tail(@)]

ScanCredit(p) ==
  LET c == calls[p]
      r == CreditReferral(World, c.pending[1])
  IN /\ c.pc = "credit"
     /\ Bounded(r.w)
     /\ InstallStore(r.w, "process_pending_referrals", c.pending[1], 0, Bool(r.ret))
     /\ calls' = [calls EXCEPT ![p] =
           IF r.ret THEN [c EXCEPT !.pc = "mark"] ELSE NextReferral(c)]
     /\ UNCHANGED write_lock

ScanMark(p) ==
  LET c == calls[p] IN
  /\ c.pc = "mark"
  /\ InstallStore(MarkReferral(World, c.pending[1]),
                  "mark_referral_rewarded", c.pending[1], 0, "None")
  /\ calls' = [calls EXCEPT ![p] = NextReferral(c)]
  /\ UNCHANGED write_lock

\* The task is cancelled, or the process stops, between the two awaits.
ScanInterrupted(p) ==
  /\ calls[p].pc = "mark"
  /\ calls' = [calls EXCEPT ![p] = NoCall]
  /\ UNCHANGED <<users, user_balances, payments, bots, referral_events,
                 days_transactions, audit_log, status_cache, now, last,
                 write_lock>>

NextScan ==
  \/ Register(101, NULL)
  \/ (Len(users) = 1 /\ Register(102, 1))
  \/ (2 \in DOMAIN users /\ HandleNewUser(2, 1))
  \/ (2 \in DOMAIN users /\ GetStatus(2, 1))
  \/ (now < MaxScanDay /\ DayPasses)
  \/ \E p \in Procs : ScanStart(p)
  \/ \E p \in Procs : ScanCredit(p)
  \/ \E p \in Procs : ScanMark(p)
  \/ \E p \in Procs : ScanInterrupted(p)

SpecScan == Init /\ [][NextScan]_vars

\* ------------------------------------------ create_new_bot, step by step
\* create_new_bot awaits between can_create_bot and db.create_bot (the token
\* is validated over the network), so another call can run in between.
\* can_create_bot: the call goes on when it returns True and raises
\* BotCreationError otherwise.
BotCheck(p, u) ==
  LET r == can_create_bot(World, u) IN
  /\ calls[p].pc = "idle"
  /\ InstallStore(r.w, "can_create_bot", u, 0, Bool(r.ret))
  /\ calls' = [calls EXCEPT ![p] =
        IF r.ret THEN [NoCall EXCEPT !.pc = "validate", !.op = "create_new_bot",
                                     !.user_id = u]
        ELSE NoCall]
  /\ UNCHANGED write_lock

\* _validate_bot_token returns nothing, or _bot_exists finds the username:
\* BotCreationError.
BotRejected(p) ==
  /\ calls[p].pc = "validate"
  /\ calls' = [calls EXCEPT ![p] = NoCall]
  /\ UNCHANGED <<users, user_balances, payments, bots, referral_events,
                 days_transactions, audit_log, status_cache, now, last,
                 write_lock>>

\* The token is that of a bot not yet registered: db.create_bot.
BotInsert(p) ==
  LET c == calls[p]
      r == create_bot(World, c.user_id)
  IN /\ c.pc = "validate"
     /\ InstallStore(r.w, "create_bot", c.user_id, 0, "None")
     /\ calls' = [calls EXCEPT ![p] = [c EXCEPT !.pc = "start"]]
     /\ UNCHANGED write_lock

\* _start_bot_instance succeeded: BOT_CREATED_SUCCESS is logged.
BotStarted(p) ==
  LET c == calls[p] IN
  /\ c.pc = "start"
  /\ InstallStore(log_audit(World, c.user_id, "BOT_CREATED_SUCCESS"),
                  "create_new_bot", c.user_id, 0, "None")
  /\ calls' = [calls EXCEPT ![p] = NoCall]
  /\ UNCHANGED write_lock

\* _start_bot_instance raised: delete_bots_by_owner, then BotCreationError.
BotStartFailed(p) ==
  LET c == calls[p] IN
  /\ c.pc = "start"
  /\ InstallStore(delete_bots_by_owner(World, c.user_id),
                  "create_new_bot", c.user_id, 0, "BotCreationError")
  /\ calls' = [calls EXCEPT ![p] = NoCall]
  /\ UNCHANGED write_lock

\* One subscribed account and two calls of create_new_bot in flight.
NextCreate ==
  \/ Register(101, NULL)
  \/ \E u \in DOMAIN users : GetStatus(u, 1)
  \/ \E p \in Procs, u \in DOMAIN users : BotCheck(p, u)
  \/ \E p \in Procs : BotRejected(p)
  \/ \E p \in Procs : BotInsert(p)
  \/ \E p \in Procs : BotStarted(p)
  \/ \E p \in Procs : BotStartFailed(p)

SpecCreate == Init /\ [][NextCreate]_vars

\* ------------------------------------------- ledger calls, step by step
\* What a ledger call does after its SELECT: from the row it read (r) and the
\* row the store holds (c), the row its UPDATE leaves pending, whether the
\* call reaches commit(), and what it returns.  The rows the call hands to
\* log_days_transaction and log_audit reach no table (see there).
LedgerUpdate(op, r, c, t, days) ==
  CASE op = "add_trial_days" ->
         [row |-> [c EXCEPT !.trial_days = r.trial_days + days],
          commit |-> TRUE, ret |-> "None"]
    [] op = "add_paid_days" ->
         [row |-> [c EXCEPT !.paid_until = NewPaidUntil(r.paid_until, t, days)],
          commit |-> TRUE, ret |-> "None"]
    [] op = "add_bonus_days" ->
         [row |-> IF ReachesPremium(r.bonus_days + days)
                  THEN [c EXCEPT !.bonus_days = r.bonus_days + days,
                                 !.is_premium = 1,
                                 !.premium_since = COALESCE(@, t)]
                  ELSE [c EXCEPT !.bonus_days = r.bonus_days + days],
          commit |-> TRUE, ret |-> "None"]
    [] OTHER ->
         LET src == ConsumeSource(r.trial_days, r.paid_until, r.bonus_days, t)
         IN CASE src = "trial" ->
                   [row |-> [c EXCEPT !.trial_days = r.trial_days - 1],
                    commit |-> TRUE, ret |-> "True"]
              [] src = "paid" ->
                   [row |-> [c EXCEPT !.paid_until = r.paid_until - 1],
                    commit |-> TRUE, ret |-> "True"]
              [] src = "bonus" ->
                   [row |-> [c EXCEPT !.bonus_days = r.bonus_days - 1],
                    commit |-> TRUE, ret |-> "True"]
              [] OTHER ->
                   [row |-> [c EXCEPT !.current_status = STATUS_EXPIRED,
                                      !.status_changed_at = t],
                    commit |-> FALSE, ret |-> "False"]

\* The same call run alone, start to end.
RunAlone(W, c) ==
  CASE c.op = "add_trial_days" -> add_trial_days(W, c.user_id, c.days)
    [] c.op = "add_paid_days" -> add_paid_days(W, c.user_id, c.days)
    [] c.op = "add_bonus_days" -> add_bonus_days(W, c.user_id, c.days)
    [] OTHER -> consume_day(W, c.user_id).w

RaceCalls ==
  <<[op |-> "consume_day", days |-> 0], [op |-> "add_trial_days", days |-> 1],
    [op |-> "add_paid_days", days |-> 1], [op |-> "add_bonus_days", days |-> 15]>>

AllReturned == \A p \in Procs : calls[p].pc \in {"idle", "done"}

\* Two coroutines call the ledger for one account.
Invoke2(u, c1, c2) ==
  LET c == [p \in Procs |-> IF p = 1 THEN c1 ELSE c2]
      call(p) == [NoCall EXCEPT !.pc = "select", !.op = c[p].op, !.user_id = u,
                                !.days = c[p].days, !.start = user_balances]
  IN /\ AllReturned
     /\ \A p, q \in Procs :
           Bounded(RunAlone(RunAlone(World, call(p)), call(q)))
     /\ calls' = [p \in Procs |-> call(p)]
     /\ UNCHANGED <<users, user_balances, payments, bots, referral_events, days_transactions,
                    audit_log, status_cache, now, last, write_lock>>

\* async with self.connect() ... SELECT ... fetchone(): the committed row.
Select(p) ==
  LET c == calls[p] IN
  /\ c.pc = "select"
  /\ calls' = [calls EXCEPT ![p] =
        IF ~HasBalance(World, c.user_id)
        THEN IF c.op = "consume_day"
             THEN [c EXCEPT !.pc = "done", !.ret = "False"]
             ELSE [c EXCEPT !.pc = "done", !.ret = "None"]
        ELSE [c EXCEPT !.pc = "update", !.row = <<user_balances[c.user_id]>>]]
  /\ UNCHANGED <<users, user_balances, payments, bots, referral_events, days_transactions,
                 audit_log, status_cache, now, last, write_lock>>

\* The first UPDATE on the connection opens its transaction with BEGIN
\* IMMEDIATE: it waits while another connection holds the write lock.
Update(p) ==
  LET c == calls[p]
      stmt == LedgerUpdate(c.op, c.row[1], user_balances[c.user_id], now, c.days)
  IN /\ c.pc = "update"
     /\ write_lock = 0
     /\ write_lock' = p
     /\ calls' = [calls EXCEPT ![p] =
           [c EXCEPT !.pc = IF stmt.commit THEN "commit" ELSE "close",
                     !.pending = <<stmt.row>>, !.ret = stmt.ret]]
     /\ UNCHANGED <<users, user_balances, payments, bots, referral_events, days_transactions,
                    audit_log, status_cache, now, last>>

\* db.commit() and the end of the connection block, or the end of the block
\* without commit(): the pending row reaches the store or is discarded, and
\* the write lock is released.
Commit(p) ==
  LET c == calls[p] IN
  /\ c.pc \in {"commit", "close"}
  /\ write_lock = p
  /\ write_lock' = 0
  /\ user_balances' = CloseConnection(c.pc = "commit", user_balances,
                         [user_balances EXCEPT ![c.user_id] = c.pending[1]])
  /\ calls' = [calls EXCEPT ![p] = [c EXCEPT !.pc = "done"]]
  /\ last' = [op |-> c.op, id |-> c.user_id, days |-> c.days, ret |-> c.ret,
              txw |-> <<>>, auw |-> <<>>, ntf |-> <<>>, arg |-> <<>>]
  /\ UNCHANGED <<users, payments, bots, referral_events, days_transactions, audit_log,
                 status_cache, now>>

\* Both callers have their results.
Return ==
  /\ \A p \in Procs : calls[p].pc = "done"
  /\ calls' = [p \in Procs |-> NoCall]
  /\ UNCHANGED <<users, user_balances, payments, bots, referral_events, days_transactions,
                 audit_log, status_cache, now, last, write_lock>>

\* Two ledger calls on one account, their statements interleaved in every
\* order the write lock admits.
NextRace ==
  \/ Register(101, NULL)
  \/ \E u \in DOMAIN users, i, j \in DOMAIN RaceCalls :
        i <= j /\ Invoke2(u, RaceCalls[i], RaceCalls[j])
  \/ \E p \in Procs : Select(p)
  \/ \E p \in Procs : Update(p)
  \/ \E p \in Procs : Commit(p)
  \/ Return

SpecRace == Init /\ [][NextRace]_vars

\* ------------------------------------------------------------ properties
Range(seq) == {seq[i] : i \in DOMAIN seq}

Accounts == DOMAIN user_balances

ConsumeInPriorityOrder ==
  [][\A u \in Accounts :
       (last'.op = "consume_day" /\ last'.id = u /\ last'.ret = "True")
       => LET b == user_balances[u]
              c == user_balances'[u]
          IN IF b.trial_days > 0
             THEN c = [b EXCEPT !.trial_days = b.trial_days - 1]
             ELSE IF b.paid_until # NULL /\ b.paid_until > now
             THEN c = [b EXCEPT !.paid_until = b.paid_until - 1]
             ELSE b.bonus_days > 0
                  /\ c = [b EXCEPT !.bonus_days = b.bonus_days - 1]]_vars

\* A day was taken from bonus because trial and paid time were exhausted.
ConsumedFromBonus ==
  /\ last.op = "consume_day" /\ last.ret = "True"
  /\ last.txw[1].balance_type = "bonus"
  /\ user_balances[last.id].trial_days = 0

\* C4: a consume_day on an account with no days left returns False and
\* leaves the account stored as expired with a DAYS_EXPIRED audit entry.
ExpiredWhenNoDaysLeft ==
  (last.op = "consume_day" /\ last.ret = "False" /\ last.id \in Accounts)
  => /\ user_balances[last.id].current_status = STATUS_EXPIRED
     /\ \E i \in DOMAIN audit_log :
           audit_log[i] = [user_id |-> last.id, action |-> "DAYS_EXPIRED"]

\* C5: trial_days, bonus_days and total_active_days are never negative.
DayCountersNonNegative ==
  \A u \in Accounts :
     /\ user_balances[u].trial_days >= 0
     /\ user_balances[u].bonus_days >= 0
     /\ total_active_days(user_balances[u], now) >= 0

\* consume_day was refused on an account whose counters were all at zero.
ConsumeRefusedAtZero ==
  /\ last.op = "consume_day" /\ last.ret = "False"
  /\ last.id \in Accounts
  /\ user_balances[last.id].trial_days = 0
  /\ user_balances[last.id].bonus_days = 0

\* C6: add_paid_days(d) sets paid_until to max(now, paid_until) + d and never
\* moves paid_until back.
PaidGrantExtends ==
  [][\A u \in Accounts :
       (last'.op = "add_paid_days" /\ last'.id = u)
       => LET before == user_balances[u].paid_until
              after == user_balances'[u].paid_until
          IN /\ after = Max(now, IF before = NULL THEN now ELSE before) + last'.days
             /\ before # NULL => after >= before]_vars

\* A grant of d > 0 days on an account that still had paid time ahead.
PaidGrantOnRemainingTime ==
  /\ last.op = "add_paid_days" /\ last.days > 0
  /\ last.id \in Accounts
  /\ user_balances[last.id].paid_until > now + last.days

DayFields(b) == <<b.trial_days, b.paid_until, b.bonus_days>>

\* C7: whenever the day fields of a Balance change, exactly one Transaction
\* row is committed in the same step.
BalanceChangeHasTransaction ==
  [][\A u \in Accounts :
       DayFields(user_balances'[u]) # DayFields(user_balances[u])
       => Len(days_transactions') = Len(days_transactions) + 1]_vars

RemainingPaidDays(b, t) ==
  IF b.paid_until = NULL THEN 0 ELSE Max(0, b.paid_until - t)

BalanceField(b, balance_type, t) ==
  CASE balance_type = "trial" -> b.trial_days
    [] balance_type = "paid" -> RemainingPaidDays(b, t)
    [] OTHER -> b.bonus_days

\* C8: the new_balance of every Transaction row a grant or a consumption
\* writes equals the Balance field of its balance kind after the mutation.
TransactionRecordsResultingBalance ==
  \A i \in DOMAIN last.txw :
     last.txw[i].user_id \in Accounts
     => last.txw[i].new_balance =
          BalanceField(user_balances[last.txw[i].user_id],
                       last.txw[i].balance_type, now)

PremiumSinceKept ==
  /\ [](\A u \in Accounts :
          user_balances[u].is_premium = 1 => user_balances[u].premium_since # NULL)
  /\ [][\A u \in Accounts :
          LET b == user_balances[u]
              c == user_balances'[u]
          IN /\ (b.is_premium = 1 /\ c.is_premium = 1)
                  => c.premium_since = b.premium_since
             /\ (b.premium_since = NULL /\ c.is_premium = 1)
                  => c.premium_since = now]_vars

\* A bonus grant on a later day left the earlier premium_since in place.
BonusGrantAfterPremiumSince ==
  /\ last.op = "add_bonus_days" /\ last.id \in Accounts
  /\ user_balances[last.id].is_premium = 1
  /\ user_balances[last.id].premium_since # NULL
  /\ user_balances[last.id].premium_since < now

\* The balance row of the account after the two calls of the episode have
\* run one after the other, first caller p then caller q.
OneAfterTheOther(p, q) ==
  LET W0 == [World EXCEPT !.user_balances = calls[p].start]
  IN RunAlone(RunAlone(W0, calls[p]), calls[q]).user_balances[calls[p].user_id]

BothDone == \A p \in Procs : calls[p].pc = "done"

\* C11: two interleaved consume_day calls never both succeed on one day of
\* entitlement: when both return True the account has two days less, and
\* with one day available exactly one returns True.
ConsumeDayNotDoubled ==
  (BothDone /\ \A p \in Procs : calls[p].op = "consume_day")
  => LET u == calls[1].user_id
         before == total_active_days(calls[1].start[u], now)
         after == total_active_days(user_balances[u], now)
     IN /\ (\A p \in Procs : calls[p].ret = "True") => after = before - 2
        /\ before = 1 => \E p, q \in Procs :
                            /\ p # q
                            /\ calls[p].ret = "True"
                            /\ calls[q].ret = "False"

\* C12: after two interleaved ledger calls on one account the balance row is
\* the one left by running them one after the other in some order.
BalanceMutationSerialized ==
  BothDone => \E p, q \in Procs :
                /\ p # q
                /\ user_balances[calls[p].user_id] = OneAfterTheOther(p, q)

\* The status the lifecycle rules assign to a subscription flag and a
\* number of active days.
StatusFor(flag, total_days) ==
  IF flag = 0 THEN STATUS_FROZEN
  ELSE IF total_days > 0 THEN STATUS_ACTIVE
  ELSE STATUS_EXPIRED

\* C13: get_user_status returns, and leaves stored, frozen when the
\* effective subscription flag (the flag passed, else the stored one) is
\* false, active when it is true and total_active_days > 0, expired when it
\* is true and no days are left; a newly created account is stored frozen.
StatusEvaluated ==
  /\ (last.op = "get_user_status" /\ last.id \in Accounts)
       => LET flag == IF last.days = NULL THEN users[last.id].is_sub_active
                      ELSE last.days
              status == StatusFor(flag, total_active_days(user_balances[last.id], now))
          IN /\ last.ret = status
             /\ user_balances[last.id].current_status = status
  /\ (last.op = "create_or_update_user" /\ last.auw # <<>>)
       => user_balances[last.id].current_status = STATUS_FROZEN

\* The step before was a write to the account: a grant, a consumption, or
\* a get_user_status that persisted a new flag or status.
WroteAccount(l, u) ==
  /\ l.id = u
  /\ \/ l.op \in {"add_trial_days", "add_paid_days", "add_bonus_days"}
     \/ (l.op = "consume_day" /\ l.ret = "True")
     \/ (l.op = "get_user_status" /\ l.auw # <<>>)

\* C18: the get_user_status call that follows a write to the account returns
\* and leaves stored the status computed from the flag and balance the
\* store holds, not a status memoized before the write.
MemoBypassedAfterWrite ==
  [][\A u \in Accounts :
       (WroteAccount(last, u) /\ last'.op = "get_user_status" /\ last'.id = u)
       => LET status == StatusFor(users'[u].is_sub_active,
                                  total_active_days(user_balances'[u], now'))
          IN /\ last'.ret = status
             /\ user_balances'[u].current_status = status]_vars

\* C19: after get_user_status was called with a subscription flag, the
\* stored flag is the flag passed.
PassedFlagPersisted ==
  (last.op = "get_user_status" /\ last.id \in Accounts /\ last.days # NULL)
  => users[last.id].is_sub_active = last.days

\* C14: an account stored as deleted stays stored as deleted.
DeletedIsTerminal ==
  [][\A u \in Accounts :
       user_balances[u].current_status = STATUS_DELETED
       => user_balances'[u].current_status = STATUS_DELETED]_vars

\* C15: a step stores deleted only for an account stored as expired with a
\* status_changed_at at least the retention window back; status_changed_at
\* is stamped with the current day by every step that stores expired for an
\* account stored otherwise, and is not moved back while the account stays
\* expired, so the account was expired throughout the window.
DeletedOnlyAfterRetention ==
  [][\A u \in Accounts :
       LET b == user_balances[u]
           c == user_balances'[u]
       IN /\ (c.current_status = STATUS_DELETED /\ b.current_status # STATUS_DELETED)
               => /\ b.current_status = STATUS_EXPIRED
                  /\ b.status_changed_at <= now - RetentionDays
          /\ (c.current_status = STATUS_EXPIRED /\ b.current_status # STATUS_EXPIRED)
               => c.status_changed_at = now'
          /\ (c.current_status = STATUS_EXPIRED /\ b.current_status = STATUS_EXPIRED)
               => c.status_changed_at >= b.status_changed_at]_vars

\* The sweep has moved to deleted an account that became expired after day
\* 0, on the day the retention window ended.
DeletedAtEndOfWindow ==
  /\ last.op = "daily_billing_task"
  /\ \E u \in Accounts :
        /\ user_balances[u].current_status = STATUS_DELETED
        /\ user_balances[u].status_changed_at > 0
        /\ user_balances[u].status_changed_at = now - RetentionDays

\* C16: when a step stores deleted for an account, the account owns no bot
\* record after that step.
DeletedOwnsNoBots ==
  [][\A u \in Accounts :
       (user_balances'[u].current_status = STATUS_DELETED
        /\ user_balances[u].current_status # STATUS_DELETED)
       => \A i \in DOMAIN bots' : bots'[i].owner_id # u]_vars

OwnedBots(bs, u) == {i \in DOMAIN bs : bs[i].owner_id = u}

\* C17: a step that changes the stored status from frozen to active leaves
\* every bot of the account running, one from active to frozen leaves every
\* bot not running, each with a BOTS_RESUMED / BOTS_PAUSED entry added to
\* the audit log; a step that changes the status in any other way changes
\* no bot's running flag.
BotsFollowStatusChange ==
  [][\A u \in Accounts :
       LET old == user_balances[u].current_status
           new == user_balances'[u].current_status
           audited(action) ==
             \E i \in DOMAIN audit_log' :
                /\ i > Len(audit_log)
                /\ audit_log'[i] = [user_id |-> u, action |-> action]
       IN /\ (old = STATUS_FROZEN /\ new = STATUS_ACTIVE)
               => /\ \A i \in OwnedBots(bots', u) : bots'[i].is_running = 1
                  /\ audited("BOTS_RESUMED")
          /\ (old = STATUS_ACTIVE /\ new = STATUS_FROZEN)
               => /\ \A i \in OwnedBots(bots', u) : bots'[i].is_running = 0
                  /\ audited("BOTS_PAUSED")
          /\ (old # new /\ <<old, new>> \notin {<<STATUS_FROZEN, STATUS_ACTIVE>>,
                                                 <<STATUS_ACTIVE, STATUS_FROZEN>>})
               => bots' = bots]_vars

\* C20: can_create_bot allows exactly when the account is stored active,
\* owns fewer than 5 bots and has total_active_days > 0.
CanCreateBotDecision ==
  (last.op = "can_create_bot" /\ last.id \in Accounts)
  => (last.ret = "True"
      <=> /\ user_balances[last.id].current_status = STATUS_ACTIVE
          /\ Cardinality(OwnedBots(bots, last.id)) < BotCeiling
          /\ total_active_days(user_balances[last.id], now) > 0)

\* C21: no two ReferralEvents carry the same referred id, and a
\* create_referral_event for a referred id that already has an event returns
\* False and leaves the table as it was.
OneEventPerReferred ==
  /\ [](\A i, j \in DOMAIN referral_events :
          referral_events[i].referred_id = referral_events[j].referred_id => i = j)
  /\ [][(last'.op = "create_referral_event"
         /\ \E i \in DOMAIN referral_events :
               referral_events[i].referred_id = last'.id)
        => (last'.ret = "False" /\ referral_events' = referral_events)]_vars

\* A second event for a referred account was refused although it named
\* another referrer and another event type.
SecondEventRefused ==
  /\ last.op = "create_referral_event" /\ last.ret = "False"
  /\ \E i \in DOMAIN referral_events :
        /\ referral_events[i].referred_id = last.id
        /\ referral_events[i].referrer_id # last.days
        /\ referral_events[i].event_type = "bot_created"

\* The edges a referrer created within the last 24 hours.
RecentEdges(referrer_id) ==
  Cardinality({i \in DOMAIN referral_events :
                 /\ referral_events[i].referrer_id = referrer_id
                 /\ referral_events[i].created_at >= now - ABUSE_CHECK_DAYS})

\* C22: handle_new_user creates an edge for a referrer only while the
\* referrer has fewer than 10 edges created within the last 24 hours; a
\* rejected call writes the audit entry REFERRAL_ABUSE_DETECTED, creates no
\* edge and notifies nobody.
AbuseCeiling ==
  [][(last'.op = "handle_new_user" /\ last'.days # NULL)
     => /\ (RecentEdges(last'.days) < MAX_REFERRALS_PER_DAY
             /\ ~IntegrityError(referral_events, last'.days, last'.id))
            => Len(referral_events') = Len(referral_events) + 1
        /\ RecentEdges(last'.days) >= MAX_REFERRALS_PER_DAY
            => /\ referral_events' = referral_events
               /\ last'.ntf = <<>>
               /\ audit_log' = Append(audit_log,
                     [user_id |-> last'.days,
                      action |-> "REFERRAL_ABUSE_DETECTED"])]_vars

\* The events a step marked rewarded.
Rewarded(e) ==
  /\ e \in DOMAIN referral_events
  /\ referral_events[e].reward_granted = 0
  /\ referral_events'[e].reward_granted = 1

\* The status the lifecycle rules give an account from its stored rows.
StoredStatus(u) ==
  IF u \notin DOMAIN users THEN STATUS_DELETED
  ELSE StatusFor(users[u].is_sub_active,
                 IF u \in Accounts THEN total_active_days(user_balances[u], now)
                 ELSE 0)

\* C23: a scan rewards an event (7 bonus days to the referrer, event marked
\* rewarded) only if its pending_until has elapsed, it is not yet rewarded
\* and the referred account, evaluated from the store at scan time, is
\* active; a referrer whose referred accounts are all frozen, expired or
\* deleted keeps its balance.
RewardOnlyForActiveReferred ==
  [][last'.op = "process_pending_referrals"
     => /\ \A e \in DOMAIN referral_events :
             Rewarded(e)
             => /\ referral_events[e].pending_until # NULL
                /\ referral_events[e].pending_until <= now
                /\ StoredStatus(referral_events[e].referred_id) = STATUS_ACTIVE
                /\ referral_events'[e].days_awarded = REFERRAL_REWARDS.bot_created.days
        /\ \A r \in Accounts :
             (\A e \in DOMAIN referral_events :
                 referral_events[e].referrer_id = r
                 => StoredStatus(referral_events[e].referred_id) # STATUS_ACTIVE)
             => user_balances'[r].bonus_days = user_balances[r].bonus_days]_vars

\* C24: however often the scan runs, overlapping or cut off between credit
\* and mark, a referrer holds at most one bot_created bonus per ReferralEvent
\* that names it.
ScanCreditsOnce ==
  \A r \in Accounts :
     user_balances[r].bonus_days <=
       REFERRAL_REWARDS.bot_created.days
         * Cardinality({e \in DOMAIN referral_events :
                          referral_events[e].referrer_id = r})

\* The bonus days the first-payment rewards can add up to for an account:
\* the welcome bonus if it was referred, and the referrer bonus for each
\* account it referred.
FirstPaymentRewards(u) ==
  (IF users[u].referrer_id # NULL
   THEN REFERRAL_REWARDS.first_payment_referred.days ELSE 0)
  + REFERRAL_REWARDS.first_payment_referrer.days
      * Cardinality({v \in DOMAIN users : users[v].referrer_id = u})

RejectedCallbackLeavesLedger ==
  [][(/\ last'.op = "process_tbank_callback"
      /\ \/ last'.days = 0
         \/ last'.id \notin DOMAIN payments
         \/ Lower(last'.arg[1]) \in {"failed", "canceled"})
     => /\ last'.ret = "False"
        /\ user_balances' = user_balances
        /\ last'.txw = <<>>
        /\ days_transactions' = days_transactions
        /\ last'.days = 0 => payments' = payments]_vars

\* A success callback with a forged signature for a pending Payment was
\* refused.
ForgedCallbackRefused ==
  /\ last.op = "process_tbank_callback" /\ last.days = 0
  /\ Lower(last.arg[1]) = "success"
  /\ last.ret = "False"
  /\ last.id \in DOMAIN payments
  /\ payments[last.id].payment_status = "pending"

\* C27: create_invoice with an unknown tariff or an unknown payment method
\* returns a failure and leaves the store as it was: no Payment row is
\* created.
InvalidInvoiceRejected ==
  [][(/\ last'.op = "create_invoice"
      /\ \/ last'.arg[1] \notin DOMAIN TARIFFS
         \/ last'.arg[2] \notin {"tbank", "stars"})
     => /\ last'.ret = "None"
        /\ payments' = payments
        /\ user_balances' = user_balances
        /\ users' = users]_vars

\* C28: a failure on one account of the daily sweep is audited with that
\* account's id and the account is skipped; every other selected account has
\* its day consumed and the retention cleanup has run.
SweepFailureIsolated ==
  [][(last'.op = "daily_billing_task" /\ last'.arg # <<>>)
     => LET failing == last'.arg[1]
            selected == BillingSelection(World)
        IN /\ \A u \in selected \cap failing :
                /\ user_balances'[u] = user_balances[u]
                /\ \E i \in DOMAIN audit_log' :
                      audit_log'[i] = [user_id |-> u, action |-> "BILLING_ERROR"]
           /\ \A u \in selected \ failing :
                total_active_days(user_balances'[u], now)
                  = total_active_days(user_balances[u], now) - 1
           /\ \A u \in DOMAIN user_balances' :
                ~ExpiredBeyond(user_balances'[u], now, RetentionDays)]_vars

\* C29: right after a daily_billing_task, and right after a
\* check_expired_notifications, running the same trigger once more changes
\* no balance and no status and sends no notification.
ScheduledTriggersIdempotent ==
  /\ last.op = "daily_billing_task"
       => LET W == daily_billing_task(World, {})
          IN W.user_balances = user_balances /\ W.ntf = <<>>
  /\ last.op = "check_expired_notifications"
       => LET W == check_expired_notifications(World)
          IN W.user_balances = user_balances /\ W.ntf = <<>>

\* A get_user_status call on an existing account that is not answered from
\* the memo: the call recomputes the status.
Recomputes ==
  /\ last'.op = "get_user_status"
  /\ last'.id \in Accounts
  /\ <<last'.id, last'.days>> \notin DOMAIN status_cache

LedgerOps == {"add_trial_days", "add_paid_days", "add_bonus_days", "consume_day"}

\* C31: a ledger operation called for an account id without a Balance row
\* returns a failure to its caller and leaves the store as it was, with no
\* Transaction row added.
UnknownAccountSignalled ==
  [][(last'.op \in LedgerOps /\ last'.id \notin Accounts)
     => /\ last'.ret \notin {"None", "True"}
        /\ user_balances' = user_balances
        /\ users' = users
        /\ days_transactions' = days_transactions]_vars

\* C32: one daily_billing_task takes exactly one day from every account
\* that is subscribed, stored active and has days left when the run selects,
\* takes none from any other account, and leaves an account whose last day
\* it took stored as expired.
SweepConsumesOncePerSelected ==
  [][last'.op = "daily_billing_task"
     => \A u \in Accounts :
          LET before == total_active_days(user_balances[u], now)
              after == total_active_days(user_balances'[u], now)
          IN IF u \in BillingSelection(World) /\ u \notin UNION Range(last'.arg)
             THEN /\ after = before - 1
                  /\ before = 1 => user_balances'[u].current_status = STATUS_EXPIRED
             ELSE after = before]_vars

\* C33: an unrewarded event changes only in a scan that finds its referred
\* account active: a scan over an event whose referred account is not active
\* leaves reward_granted, pending_until and the referrer's balance as they
\* were, and no operation expires or rejects a pending event.
PendingEventLeftPending ==
  [][/\ \A e \in DOMAIN referral_events :
          (referral_events[e].reward_granted = 0
           /\ referral_events'[e] # referral_events[e])
          => /\ last'.op = "process_pending_referrals"
             /\ StoredStatus(referral_events[e].referred_id) = STATUS_ACTIVE
     /\ last'.op = "process_pending_referrals"
          => \A r \in Accounts :
               (\A e \in DOMAIN referral_events :
                   (referral_events[e].referrer_id = r
                    /\ referral_events[e].reward_granted = 0)
                   => StoredStatus(referral_events[e].referred_id) # STATUS_ACTIVE)
               => user_balances'[r].bonus_days = user_balances[r].bonus_days]_vars

\* C34: a get_user_status call on an account stored expired that still
\* evaluates to expired leaves the balance row, status_changed_at included,
\* as it was and sends no notification; the expiry notification goes out
\* only with a change of the stored status to expired.
ExpiredNotRestamped ==
  [][(last'.op = "get_user_status" /\ last'.id \in Accounts)
     => LET b == user_balances[last'.id]
            c == user_balances'[last'.id]
        IN /\ (b.current_status = STATUS_EXPIRED /\ last'.ret = STATUS_EXPIRED)
                => (c = b /\ last'.ntf = <<>>)
           /\ last'.ntf # <<>>
                => /\ b.current_status # STATUS_EXPIRED
                   /\ c.current_status = STATUS_EXPIRED
                   /\ c.status_changed_at = now]_vars

\* An account expired on an earlier day was evaluated again as expired.
ExpiredEvaluatedAgain ==
  /\ last.op = "get_user_status" /\ last.ret = STATUS_EXPIRED
  /\ last.id \in Accounts
  /\ last.ntf = <<>>
  /\ user_balances[last.id].current_status = STATUS_EXPIRED
  /\ user_balances[last.id].status_changed_at < now

\* C35: with the daily job running every day, a subscribed account that has
\* run out of days early enough for the retention window to pass is
\* eventually stored deleted, unless it is granted days or unsubscribes.
RetentionIsLive ==
  \A u \in {1} :
     (/\ u \in Accounts
      /\ users[u].is_sub_active = 1
      /\ total_active_days(user_balances[u], now) = 0
      /\ Early)
     ~> (/\ u \in Accounts
         /\ \/ user_balances[u].current_status = STATUS_DELETED
            \/ total_active_days(user_balances[u], now) > 0
            \/ users[u].is_sub_active = 0)

\* The successful payments of account u.
Succeeded(u) ==
  {p \in DOMAIN payments :
     payments[p].user_id = u /\ payments[p].payment_status = "success"}

NeverMoreThanFiveBots ==
  \A u \in Accounts : Cardinality(get_user_bots(World, u)) <= BotCeiling

PaidLastsAsGranted ==
  \A u \in Accounts :
     (/\ users[u].is_sub_active = 1
      /\ user_balances[u].paid_until # NULL
      /\ last.op = "daily_billing_task"
      /\ 1 <= now /\ now < PaidGrant)
     => /\ user_balances[u].current_status = STATUS_ACTIVE
        /\ total_active_days(user_balances[u], now) > 0

\* C40: create_invoice for the demo tariff leaves the Payment rows as they
\* are, adds the tariff's 10 days to the account's trial_days, on every
\* call, and returns the free result.
DemoAddsTrialNoPayment ==
  [][\A u \in Accounts :
       (last'.op = "create_invoice" /\ last'.arg[1] = "demo" /\ last'.id = u)
       => /\ payments' = payments
          /\ user_balances'[u].trial_days =
               user_balances[u].trial_days + TARIFFS.demo.days
          /\ last'.ret = "free"]_vars

\* The demo tariff was taken a second time by an account that still held
\* the days of the first.
DemoTakenAgain ==
  /\ last.op = "create_invoice" /\ last.arg[1] = "demo"
  /\ last.id \in Accounts
  /\ user_balances[last.id].trial_days = DefaultTrialDays + 2 * TARIFFS.demo.days
  /\ \A p \in DOMAIN payments : payments[p].days_awarded # TARIFFS.demo.days

====
